---------------------------- MODULE Spec2Model ----------------------------
(***************************************************************************)
(* A model of cloud66-samples/helloworld (src/main.go): the server         *)
(* lifecycle (main, the shutdown goroutine, signal delivery, the liveness  *)
(* flag), the handler chain (tracing, logging, router) and the page        *)
(* handler.  net/http behaves as in Go 1.13, the toolchain src/Dockerfile  *)
(* builds with.                                                            *)
(***************************************************************************)
EXTENDS Integers, Sequences, FiniteSets, TLC

(***************************************************************************)
(* Bounds of the model.                                                    *)
(***************************************************************************)
\* signals the environment sends in one run
MaxSignals == 2
\* connections the listener hands out in one run of the lifecycle
MaxConns == 1
\* requests that go through the handler chain
MaxReqs == 2
\* the clock's last value
MaxClock == 1
\* fragments a template is made of
MaxFrags == 3

(***************************************************************************)
(* Program constants.                                                      *)
(***************************************************************************)
\* make(chan os.Signal): the cancel channel is unbuffered
CancelCap == 0
\* quit made like cancel, without a buffer
QuitCapUnbuffered == CancelCap
\* make(chan os.Signal, 1)
QuitCap == 1

StatusOK == 200
StatusNoContent == 204
StatusNotFound == 404
StatusServiceUnavailable == 503

(***************************************************************************)
(* Strings that the page handler works on are sequences of characters.     *)
(***************************************************************************)
\* line 101: the token strings.Replace looks for, "{{LEAD}}"
Placeholder == <<"{", "{", "L", "E", "A", "D", "}", "}">>

\* line 97
LeadConnected ==
    <<"T", "h", "i", "s", " ", "i", "s", " ", "a", " ", "s", "i", "m", "p",
      "l", "e", " ", "s", "e", "r", "v", "i", "c", "e", " ", "a", "p", "p",
      "l", "i", "c", "a", "t", "i", "o", "n", "(", "c", "o", "n", "n", "e",
      "c", "t", "e", "d", " ", "t", "o", " ", "R", "e", "d", "i", "s", ")",
      ".", " ", "D", "e", "p", "l", "o", "y", "e", "d", " ", "b", "y", " ",
      "C", "l", "o", "u", "d", " ", "6", "6", " ", "~">>

\* line 99
LeadStandalone ==
    <<"T", "h", "i", "s", " ", "i", "s", " ", "a", " ", "s", "i", "m", "p",
      "l", "e", " ", "s", "i", "n", "g", "l", "e", " ", "s", "e", "r", "v",
      "i", "c", "e", " ", "a", "p", "p", "l", "i", "c", "a", "t", "i", "o",
      "n", ".", " ", "D", "e", "p", "l", "o", "y", "e", "d", " ", "b", "y",
      " ", "C", "l", "o", "u", "d", " ", "6", "6">>

\* strings.Contains
Contains(s, sub) == \E i \in 1..(Len(s) - Len(sub) + 1) : SubSeq(s, i, i + Len(sub) - 1) = sub

\* strings.Index: the first position at which sub occurs in s, 0 when none does
Index(s, sub) ==
    IF Contains(s, sub)
    THEN CHOOSE i \in 1..(Len(s) - Len(sub) + 1) :
            /\ SubSeq(s, i, i + Len(sub) - 1) = sub
            /\ \A j \in 1..(i - 1) : SubSeq(s, j, j + Len(sub) - 1) # sub
    ELSE 0

\* strings.Replace(s, old, new, 1): only the first instance
ReplaceFirst(s, old, new) ==
    IF Index(s, old) = 0 THEN s
    ELSE SubSeq(s, 1, Index(s, old) - 1) \o new
         \o SubSeq(s, Index(s, old) + Len(old), Len(s))

\* strings.Replace(s, old, new, -1) for a non-empty old: every non-overlapping
\* instance of old, found left to right, becomes new
RECURSIVE Replace(_, _, _)
Replace(s, old, new) ==
    IF Index(s, old) = 0 THEN s
    ELSE SubSeq(s, 1, Index(s, old) - 1) \o new
         \o Replace(SubSeq(s, Index(s, old) + Len(old), Len(s)), old, new)

\* line 93: ioutil.ReadFile's error is dropped, and a failed read leaves no content
ReadFile(file, readable) == IF readable THEN file ELSE <<>>

\* what client.Ping().Result() can give: the reply, "" with an error, another reply
PingReplies == {"PONG", "", "ERR"}

\* lines 115-127, testRedisConnection: the error is dropped, only "PONG" counts
testRedisConnection(pong) == pong = "PONG"

\* lines 96-100: the greeting the probe result selects
LeadContent(probe) == IF probe THEN LeadConnected ELSE LeadStandalone

\* a handler that answers 500 when the template cannot be read
handlerFailsOnRead(file, readable, pong) ==
    [status |-> IF readable THEN StatusOK ELSE 500,
     body   |-> Replace(ReadFile(file, readable), Placeholder,
                        LeadContent(testRedisConnection(pong)))]

\* lines 92-103, handler: the body written (with the implicit status 200)
handler(file, readable, pong) ==
    [status |-> StatusOK,
     body   |-> Replace(ReadFile(file, readable), Placeholder,
                        LeadContent(testRedisConnection(pong)))]

\* the test of line 107 the wrong way round
healthzInverted(flag) ==
    [status |-> IF flag = 1 THEN StatusServiceUnavailable ELSE StatusNoContent,
     body   |-> <<>>]

\* lines 105-113, healthz: status only, from one load of the flag
healthz(flag) ==
    [status |-> IF flag = 1 THEN StatusNoContent ELSE StatusServiceUnavailable,
     body   |-> <<>>]

\* http.FileServer(http.Dir("./static")): the file's bytes, or 404
NotFoundBody == <<"4", "0", "4">>
FileServer(bytes, found) ==
    IF found THEN [status |-> StatusOK, body |-> bytes]
    ELSE [status |-> StatusNotFound, body |-> NotFoundBody]

(***************************************************************************)
(* The router, lines 45-48.  healthz is defined and registered nowhere.    *)
(***************************************************************************)
Routes == {[pattern |-> "/style.css",      target |-> "FileServer"],
           [pattern |-> "/background.jpg", target |-> "FileServer"],
           [pattern |-> "/",               target |-> "handler"]}

HealthPath == "/healthz"
\* the paths requests ask for
Paths == {"/", "/style.css", HealthPath}

\* http.ServeMux: a pattern that does not end in a slash matches that path only;
\* "/" names the subtree of every path; an exact match wins over the subtree
ExactRoutes(path) == {r \in Routes : r.pattern = path}
ServeMux(path) ==
    IF ExactRoutes(path) # {}
    THEN (CHOOSE r \in ExactRoutes(path) : TRUE).target
    ELSE IF \E r \in Routes : r.pattern = "/"
         THEN (CHOOSE r \in Routes : r.pattern = "/").target
         ELSE "NotFound"

\* what the environment decides for one request: the template file and whether
\* it can be read, the reply to PING, the static file and whether it exists
RouterServe(path, flag, env) ==
    CASE ServeMux(path) = "handler"    -> handler(env.file, env.readable, env.pong)
      [] ServeMux(path) = "healthz"    -> healthz(flag)
      [] ServeMux(path) = "FileServer" -> FileServer(env.bytes, env.found)
      [] OTHER                         -> [status |-> StatusNotFound, body |-> NotFoundBody]

SIGINT == "SIGINT"
SIGTERM == "SIGTERM"
Signals == {SIGINT, SIGTERM}

VARIABLES
    mpc,          \* position of the main goroutine
    gpc,          \* position of the shutdown goroutine ("none" before go func)
    proc,         \* "running", "exited0", "exited1" (Fatalf), "killed" (by a signal)
    healthy,      \* the int32 liveness flag
    writes,       \* history: the values stored to healthy, in order
    notify,       \* signal.Notify registrations: pairs <<channel, signal>>
    chanBuf,      \* contents of the two signal channels
    delivered,    \* history: signals delivered once both Notify calls had run
    sigCount,     \* signals sent so far
    doneClosed,   \* the done channel is closed
    inShutdown,   \* http.Server.inShutdown
    listener,     \* "none", "open", "closed"
    tracked,      \* the listener is in http.Server.listeners
    keepAlives,   \* http.Server keep-alives enabled
    ctxArmed,     \* the 30 s context exists
    ctxExpired,   \* its deadline has passed
    lnerr,        \* what closing the listeners returned inside Shutdown
    shutdownErr,  \* what server.Shutdown returned ("pending" before)
    listenFailed, \* ListenAndServe returned an error other than ErrServerClosed
    conns,        \* connections accepted: records, see AcceptConn
    clock,        \* what time.Now().UnixNano() returns
    reqs,         \* the requests going through the handler chain, see Arrive
    file,         \* the content of ./static/index.html
    readable,     \* whether ioutil.ReadFile can read it
    pong,         \* what the PING to Redis gives
    page,         \* what the page handler wrote: <<>> before, <<response>> after
    hz            \* a call of the healthz handler, see HealthzBegin

lifeVars == <<mpc, gpc, proc, healthy, writes, notify, chanBuf, delivered, sigCount,
              doneClosed, inShutdown, listener, tracked, keepAlives, ctxArmed,
              ctxExpired, lnerr, shutdownErr, listenFailed, conns>>

chainVars == <<clock, reqs>>

pageVars == <<file, readable, pong, page>>

vars == <<lifeVars, chainVars, pageVars, hz>>

\* what the lifecycle's actions leave alone
lifeOther == <<chainVars, pageVars, hz>>

\* what the chain's actions leave alone
chainOther == <<lifeVars, pageVars, hz>>

Running == proc = "running"

(***************************************************************************)
(* Channels and signal delivery (os/signal): a signal with no registration *)
(* keeps its default disposition and kills the process; otherwise it is    *)
(* sent, without blocking, to every channel registered for it.             *)
(***************************************************************************)
ChanCap(ch) == IF ch = "quit" THEN QuitCap ELSE CancelCap

\* a goroutine is blocked receiving from ch: only <-quit exists (line 68)
ReceiverWaiting(ch) == ch = "quit" /\ gpc = "g68"

\* the non-blocking send of os/signal: buffered, handed to a receiver, or dropped
CanSend(ch) == Len(chanBuf[ch]) < ChanCap(ch) \/ (ReceiverWaiting(ch) /\ chanBuf[ch] = <<>>)

ChannelsFor(sig) == {ch \in {"cancel", "quit"} : <<ch, sig>> \in notify}

BothRegistered == <<"cancel", SIGTERM>> \in notify /\ <<"quit", SIGINT>> \in notify

Signal(sig) ==
    /\ Running
    /\ sigCount < MaxSignals
    /\ sigCount' = sigCount + 1
    /\ IF ChannelsFor(sig) = {}
       THEN /\ proc' = "killed"
            /\ UNCHANGED <<chanBuf, delivered>>
       ELSE /\ chanBuf' = [ch \in {"cancel", "quit"} |->
                              IF ch \in ChannelsFor(sig) /\ CanSend(ch)
                              THEN Append(chanBuf[ch], sig)
                              ELSE chanBuf[ch]]
            /\ delivered' = IF BothRegistered THEN delivered \cup {sig} ELSE delivered
            /\ UNCHANGED proc
    /\ UNCHANGED lifeOther
    /\ UNCHANGED <<mpc, gpc, healthy, writes, notify, doneClosed, inShutdown, listener,
                   tracked, keepAlives, ctxArmed, ctxExpired, lnerr, shutdownErr,
                   listenFailed, conns>>

(***************************************************************************)
(* main, lines 33-90.                                                      *)
(***************************************************************************)
\* lines 38-39: signal.Notify(cancel, os.Interrupt, syscall.SIGTERM)
MainNotifyCancel ==
    /\ Running /\ mpc = "m39"
    /\ notify' = notify \cup {<<"cancel", SIGINT>>, <<"cancel", SIGTERM>>}
    /\ mpc' = "m65"
    /\ UNCHANGED lifeOther
    /\ UNCHANGED <<gpc, proc, healthy, writes, chanBuf, delivered, sigCount, doneClosed,
                   inShutdown, listener, tracked, keepAlives, ctxArmed, ctxExpired,
                   lnerr, shutdownErr, listenFailed, conns>>

\* lines 63-65: signal.Notify(quit, os.Interrupt)
MainNotifyQuit ==
    /\ Running /\ mpc = "m65"
    /\ notify' = notify \cup {<<"quit", SIGINT>>}
    /\ mpc' = "m67"
    /\ UNCHANGED lifeOther
    /\ UNCHANGED <<gpc, proc, healthy, writes, chanBuf, delivered, sigCount, doneClosed,
                   inShutdown, listener, tracked, keepAlives, ctxArmed, ctxExpired,
                   lnerr, shutdownErr, listenFailed, conns>>

\* line 67: go func() { ... }()
MainGo ==
    /\ Running /\ mpc = "m67"
    /\ gpc' = "g68"
    /\ mpc' = "m83"
    /\ UNCHANGED lifeOther
    /\ UNCHANGED <<proc, healthy, writes, notify, chanBuf, delivered, sigCount, doneClosed,
                   inShutdown, listener, tracked, keepAlives, ctxArmed, ctxExpired,
                   lnerr, shutdownErr, listenFailed, conns>>

\* lines 82-83: atomic.StoreInt32(&healthy, 1)
MainStoreHealthy ==
    /\ Running /\ mpc = "m83"
    /\ healthy' = 1
    /\ writes' = Append(writes, 1)
    /\ mpc' = "m84"
    /\ UNCHANGED lifeOther
    /\ UNCHANGED <<gpc, proc, notify, chanBuf, delivered, sigCount, doneClosed,
                   inShutdown, listener, tracked, keepAlives, ctxArmed, ctxExpired,
                   lnerr, shutdownErr, listenFailed, conns>>

\* line 84, ListenAndServe: a server that is shutting down returns
\* ErrServerClosed at once; otherwise net.Listen binds, or fails
MainListen ==
    /\ Running /\ mpc = "m84"
    /\ IF inShutdown
       THEN /\ mpc' = "m88"
            /\ UNCHANGED <<listener, listenFailed>>
       ELSE \E bound \in BOOLEAN :
               /\ listener' = IF bound THEN "open" ELSE listener
               /\ listenFailed' = ~bound
               /\ mpc' = IF bound THEN "serve" ELSE "m85"
    /\ UNCHANGED lifeOther
    /\ UNCHANGED <<gpc, proc, healthy, writes, notify, chanBuf, delivered, sigCount,
                   doneClosed, inShutdown, tracked, keepAlives, ctxArmed, ctxExpired,
                   lnerr, shutdownErr, conns>>

\* line 84, Serve: trackListener refuses a server that is shutting down (Serve
\* closes the listener and returns ErrServerClosed), else registers the listener
MainServe ==
    /\ Running /\ mpc = "serve"
    /\ IF inShutdown
       THEN /\ listener' = "closed"
            /\ mpc' = "m88"
            /\ UNCHANGED tracked
       ELSE /\ tracked' = TRUE
            /\ mpc' = "accept"
            /\ UNCHANGED listener
    /\ UNCHANGED lifeOther
    /\ UNCHANGED <<gpc, proc, healthy, writes, notify, chanBuf, delivered, sigCount,
                   doneClosed, inShutdown, keepAlives, ctxArmed, ctxExpired, lnerr,
                   shutdownErr, listenFailed, conns>>

\* line 84, the accept loop: Accept fails once Shutdown closed the listener, and
\* Serve returns ErrServerClosed, which line 84 lets pass
MainServeReturn ==
    /\ Running /\ mpc = "accept"
    /\ listener = "closed"
    /\ tracked' = FALSE
    /\ mpc' = "m88"
    /\ UNCHANGED lifeOther
    /\ UNCHANGED <<gpc, proc, healthy, writes, notify, chanBuf, delivered, sigCount,
                   doneClosed, inShutdown, listener, keepAlives, ctxArmed, ctxExpired,
                   lnerr, shutdownErr, listenFailed, conns>>

\* line 85: logger.Fatalf("Could not listen ...") is os.Exit(1)
MainFatal ==
    /\ Running /\ mpc = "m85"
    /\ proc' = "exited1"
    /\ mpc' = "fatal"
    /\ UNCHANGED lifeOther
    /\ UNCHANGED <<gpc, healthy, writes, notify, chanBuf, delivered, sigCount, doneClosed,
                   inShutdown, listener, tracked, keepAlives, ctxArmed, ctxExpired,
                   lnerr, shutdownErr, listenFailed, conns>>

\* main goes on once ListenAndServe has returned, without receiving from done
MainSkipDone ==
    /\ Running /\ mpc = "m88"
    /\ mpc' = "m89"
    /\ UNCHANGED lifeOther
    /\ UNCHANGED <<gpc, proc, healthy, writes, notify, chanBuf, delivered, sigCount,
                   doneClosed, inShutdown, listener, tracked, keepAlives, ctxArmed,
                   ctxExpired, lnerr, shutdownErr, listenFailed, conns>>

\* line 88: <-done
MainAwaitDone ==
    /\ Running /\ mpc = "m88"
    /\ doneClosed
    /\ mpc' = "m89"
    /\ UNCHANGED lifeOther
    /\ UNCHANGED <<gpc, proc, healthy, writes, notify, chanBuf, delivered, sigCount,
                   doneClosed, inShutdown, listener, tracked, keepAlives, ctxArmed,
                   ctxExpired, lnerr, shutdownErr, listenFailed, conns>>

\* lines 89-90: "Server stopped", main returns and the process exits 0
MainReturn ==
    /\ Running /\ mpc = "m89"
    /\ proc' = "exited0"
    /\ mpc' = "returned"
    /\ UNCHANGED lifeOther
    /\ UNCHANGED <<gpc, healthy, writes, notify, chanBuf, delivered, sigCount, doneClosed,
                   inShutdown, listener, tracked, keepAlives, ctxArmed, ctxExpired,
                   lnerr, shutdownErr, listenFailed, conns>>

(***************************************************************************)
(* The shutdown goroutine, lines 67-80.                                    *)
(***************************************************************************)
\* line 68: <-quit
GoAwaitQuit ==
    /\ Running /\ gpc = "g68"
    /\ chanBuf["quit"] # <<>>
    /\ chanBuf' = [chanBuf EXCEPT !["quit"] = Tail(@)]
    /\ gpc' = "g70"
    /\ UNCHANGED lifeOther
    /\ UNCHANGED <<mpc, proc, healthy, writes, notify, delivered, sigCount, doneClosed,
                   inShutdown, listener, tracked, keepAlives, ctxArmed, ctxExpired, lnerr,
                   shutdownErr, listenFailed, conns>>

\* lines 69-70: atomic.StoreInt32(&healthy, 0)
GoStoreUnhealthy ==
    /\ Running /\ gpc = "g70"
    /\ healthy' = 0
    /\ writes' = Append(writes, 0)
    /\ gpc' = "g72"
    /\ UNCHANGED lifeOther
    /\ UNCHANGED <<mpc, proc, notify, chanBuf, delivered, sigCount, doneClosed, inShutdown,
                   listener, tracked, keepAlives, ctxArmed, ctxExpired, lnerr, shutdownErr,
                   listenFailed, conns>>

\* lines 72-73: context.WithTimeout(context.Background(), 30*time.Second)
GoContext ==
    /\ Running /\ gpc = "g72"
    /\ ctxArmed' = TRUE
    /\ gpc' = "g75"
    /\ UNCHANGED lifeOther
    /\ UNCHANGED <<mpc, proc, healthy, writes, notify, chanBuf, delivered, sigCount,
                   doneClosed, inShutdown, listener, tracked, keepAlives, ctxExpired,
                   lnerr, shutdownErr, listenFailed, conns>>

\* the 30 seconds pass while Shutdown has not returned
DeadlineExpire ==
    /\ Running
    /\ ctxArmed /\ ~ctxExpired
    /\ shutdownErr = "pending"
    /\ ctxExpired' = TRUE
    /\ UNCHANGED lifeOther
    /\ UNCHANGED <<mpc, gpc, proc, healthy, writes, notify, chanBuf, delivered, sigCount,
                   doneClosed, inShutdown, listener, tracked, keepAlives, ctxArmed, lnerr,
                   shutdownErr, listenFailed, conns>>

\* line 75: server.SetKeepAlivesEnabled(false)
GoKeepAlives ==
    /\ Running /\ gpc = "g75"
    /\ keepAlives' = FALSE
    /\ gpc' = "g76"
    /\ UNCHANGED lifeOther
    /\ UNCHANGED <<mpc, proc, healthy, writes, notify, chanBuf, delivered, sigCount,
                   doneClosed, inShutdown, listener, tracked, ctxArmed, ctxExpired, lnerr,
                   shutdownErr, listenFailed, conns>>

\* line 76, Shutdown: inShutdown is set first, before the server's lock is taken
GoShutdownBegin ==
    /\ Running /\ gpc = "g76"
    /\ inShutdown' = TRUE
    /\ gpc' = "g76close"
    /\ UNCHANGED lifeOther
    /\ UNCHANGED <<mpc, proc, healthy, writes, notify, chanBuf, delivered, sigCount,
                   doneClosed, listener, tracked, keepAlives, ctxArmed, ctxExpired, lnerr,
                   shutdownErr, listenFailed, conns>>

\* line 76, Shutdown under the lock: the tracked listeners are closed, and
\* closing may fail (lnerr)
GoShutdownClose ==
    /\ Running /\ gpc = "g76close"
    /\ IF tracked /\ listener = "open"
       THEN /\ listener' = "closed"
            /\ \E e \in {"nil", "closeErr"} : lnerr' = e
       ELSE UNCHANGED <<listener, lnerr>>
    /\ gpc' = "g76poll"
    /\ UNCHANGED lifeOther
    /\ UNCHANGED <<mpc, proc, healthy, writes, notify, chanBuf, delivered, sigCount,
                   doneClosed, inShutdown, tracked, keepAlives, ctxArmed, ctxExpired,
                   shutdownErr, listenFailed, conns>>

\* a connection is still serving a request
ActiveConns == {i \in 1..Len(conns) : conns[i].state = "active"}

\* line 76, Shutdown's loop: closeIdleConns reports whether the server is quiescent
GoShutdownPoll ==
    /\ Running /\ gpc = "g76poll"
    /\ IF ActiveConns = {}
       THEN /\ shutdownErr' = lnerr
            /\ gpc' = "g76ret"
       ELSE /\ gpc' = "g76select"
            /\ UNCHANGED shutdownErr
    /\ UNCHANGED lifeOther
    /\ UNCHANGED <<mpc, proc, healthy, writes, notify, chanBuf, delivered, sigCount,
                   doneClosed, inShutdown, listener, tracked, keepAlives, ctxArmed,
                   ctxExpired, lnerr, listenFailed, conns>>

\* line 76, Shutdown's select: the poll ticker fires
GoShutdownTick ==
    /\ Running /\ gpc = "g76select"
    /\ gpc' = "g76poll"
    /\ UNCHANGED lifeOther
    /\ UNCHANGED <<mpc, proc, healthy, writes, notify, chanBuf, delivered, sigCount,
                   doneClosed, inShutdown, listener, tracked, keepAlives, ctxArmed,
                   ctxExpired, lnerr, shutdownErr, listenFailed, conns>>

\* line 76, Shutdown's select: ctx.Done() is ready, Shutdown returns ctx.Err()
GoShutdownDeadline ==
    /\ Running /\ gpc = "g76select"
    /\ ctxExpired
    /\ shutdownErr' = "deadline"
    /\ gpc' = "g76ret"
    /\ UNCHANGED lifeOther
    /\ UNCHANGED <<mpc, proc, healthy, writes, notify, chanBuf, delivered, sigCount,
                   doneClosed, inShutdown, listener, tracked, keepAlives, ctxArmed,
                   ctxExpired, lnerr, listenFailed, conns>>

\* only an error other than the deadline's counts
ShutdownFailedNotDeadline(err) == err \notin {"nil", "deadline"}
\* line 76: err != nil
ShutdownFailed(err) == err # "nil"

\* line 77: logger.Fatalf("Could not gracefully shutdown ...") is os.Exit(1)
GoFatal ==
    /\ Running /\ gpc = "g76ret"
    /\ ShutdownFailed(shutdownErr)
    /\ proc' = "exited1"
    /\ gpc' = "fatal"
    /\ UNCHANGED lifeOther
    /\ UNCHANGED <<mpc, healthy, writes, notify, chanBuf, delivered, sigCount, doneClosed,
                   inShutdown, listener, tracked, keepAlives, ctxArmed, ctxExpired, lnerr,
                   shutdownErr, listenFailed, conns>>

\* line 79: close(done)
GoCloseDone ==
    /\ Running /\ gpc = "g76ret"
    /\ ~ShutdownFailed(shutdownErr)
    /\ doneClosed' = TRUE
    /\ gpc' = "returned"
    /\ UNCHANGED lifeOther
    /\ UNCHANGED <<mpc, proc, healthy, writes, notify, chanBuf, delivered, sigCount,
                   inShutdown, listener, tracked, keepAlives, ctxArmed, ctxExpired, lnerr,
                   shutdownErr, listenFailed, conns>>

(***************************************************************************)
(* Connections.  The accept loop of Serve hands each connection to its own *)
(* goroutine, which runs the handler chain of line 56; the response is     *)
(* what the router's target writes.                                        *)
(***************************************************************************)
\* the listener is bound and the accept loop is taking connections
Serving == mpc = "accept" /\ listener = "open"

\* main has stored 1 and the shutdown goroutine has not yet been woken
BetweenStartAndShutdown == mpc \notin {"m39", "m65", "m67", "m83"} /\ gpc = "g68"

\* a short index.html with one placeholder
SampleIndex == <<"<", "p", ">">> \o Placeholder

ConnEnvs == [file : {SampleIndex}, readable : BOOLEAN, pong : PingReplies,
             bytes : {<<"c", "s", "s">>}, found : BOOLEAN]

AcceptConn(path) ==
    /\ Running /\ Serving
    /\ Len(conns) < MaxConns
    /\ conns' = Append(conns, [path |-> path, state |-> "active"])
    /\ UNCHANGED lifeOther
    /\ UNCHANGED <<mpc, gpc, proc, healthy, writes, notify, chanBuf, delivered, sigCount,
                   doneClosed, inShutdown, listener, tracked, keepAlives, ctxArmed,
                   ctxExpired, lnerr, shutdownErr, listenFailed>>

\* the handler returns; without it the handler hangs
FinishConn(i, env) ==
    /\ Running
    /\ i \in ActiveConns
    /\ conns' = [conns EXCEPT ![i] =
                    [path     |-> @.path,
                     state    |-> "done",
                     resp     |-> RouterServe(@.path, healthy, env),
                     live     |-> BetweenStartAndShutdown]]
    /\ UNCHANGED lifeOther
    /\ UNCHANGED <<mpc, gpc, proc, healthy, writes, notify, chanBuf, delivered, sigCount,
                   doneClosed, inShutdown, listener, tracked, keepAlives, ctxArmed,
                   ctxExpired, lnerr, shutdownErr, listenFailed>>

(***************************************************************************)
(* The lifecycle.                                                          *)
(***************************************************************************)
LifeInit ==
    /\ mpc = "m39"
    /\ gpc = "none"
    /\ proc = "running"
    /\ healthy = 0
    /\ writes = <<>>
    /\ notify = {}
    /\ chanBuf = [ch \in {"cancel", "quit"} |-> <<>>]
    /\ delivered = {}
    /\ sigCount = 0
    /\ doneClosed = FALSE
    /\ inShutdown = FALSE
    /\ listener = "none"
    /\ tracked = FALSE
    /\ keepAlives = TRUE
    /\ ctxArmed = FALSE
    /\ ctxExpired = FALSE
    /\ lnerr = "nil"
    /\ shutdownErr = "pending"
    /\ listenFailed = FALSE
    /\ conns = <<>>

\* no request goes through the handler chain
ChainIdle == clock = 0 /\ reqs = <<>>

\* no page is being rendered
PageIdle == file = <<>> /\ readable = TRUE /\ pong = "PONG" /\ page = <<>>

\* healthz is not being called
HealthzIdle == hz = [pc |-> "idle"]

Init == LifeInit /\ ChainIdle /\ PageIdle /\ HealthzIdle

MainStep ==
    \/ MainNotifyCancel
    \/ MainNotifyQuit
    \/ MainGo
    \/ MainStoreHealthy
    \/ MainListen
    \/ MainServe
    \/ MainServeReturn
    \/ MainFatal
    \/ MainAwaitDone
    \/ MainReturn

GoStep ==
    \/ GoAwaitQuit
    \/ GoStoreUnhealthy
    \/ GoContext
    \/ GoKeepAlives
    \/ GoShutdownBegin
    \/ GoShutdownClose
    \/ GoShutdownPoll
    \/ GoShutdownTick
    \/ GoShutdownDeadline
    \/ GoFatal
    \/ GoCloseDone

Next ==
    \/ MainStep
    \/ GoStep
    \/ DeadlineExpire
    \/ \E sig \in Signals : Signal(sig)
    \/ \E path \in Paths : AcceptConn(path)
    \/ \E i \in 1..MaxConns, env \in ConnEnvs : FinishConn(i, env)

Spec == Init /\ [][Next]_vars

\* the Go scheduler runs every runnable goroutine, time passes, and a select
\* with a ready ctx.Done() case takes it sooner or later; signals and requests
\* are the environment's, and a handler may never return
FairSpec ==
    /\ Spec
    /\ WF_vars(MainStep)
    /\ WF_vars(GoStep)
    /\ WF_vars(DeadlineExpire)
    /\ SF_vars(GoShutdownDeadline)

(***************************************************************************)
(* The handler chain of line 56, tracing(nextRequestID)(logging(logger)    *)
(* (router)), one goroutine per request.                                   *)
(***************************************************************************)
Digits == <<"0", "1", "2", "3", "4", "5", "6", "7", "8", "9">>

\* fmt.Sprintf("%d", n)
RECURSIVE FormatInt(_)
FormatInt(n) ==
    IF n < 0 THEN "-" \o FormatInt(-n)
    ELSE IF n < 10 THEN Digits[n + 1]
    ELSE FormatInt(n \div 10) \o Digits[(n % 10) + 1]

\* lines 50-52, nextRequestID, given what time.Now().UnixNano() returns
nextRequestID(now) == FormatInt(now)

\* the values an X-Request-Id header is sent with; a header may be absent
\* (no values) or carry one value, the empty one included
HeaderValues == {"", "a", "1"}
Headers == {<<>>} \cup {<<v>> : v \in HeaderValues}

\* http.Header.Get: the first value of the header, "" when there is none
HeaderGet(hdr) == IF hdr = <<>> THEN "" ELSE hdr[1]

\* the header is never looked at
RequestIDAlwaysNew(hdr, now) == nextRequestID(now)

\* lines 147-150: the header's value, or a generated identifier when it is ""
RequestID(hdr, now) ==
    IF HeaderGet(hdr) = "" THEN nextRequestID(now) ELSE HeaderGet(hdr)

\* the paths the requests of the chain ask for
ChainPaths == {"/", HealthPath}

\* the environment of the requests of the chain
ChainEnv == [file |-> SampleIndex, readable |-> TRUE, pong |-> "PONG",
             bytes |-> <<"c", "s", "s">>, found |-> TRUE]

\* the clock advances
Tick ==
    /\ clock < MaxClock
    /\ clock' = clock + 1
    /\ UNCHANGED <<reqs, chainOther>>

\* a request reaches the server: its X-Request-Id header and its path
Arrive(hdr, path) ==
    /\ Len(reqs) < MaxReqs
    /\ reqs' = Append(reqs, [pc |-> "tracing", hdr |-> hdr, path |-> path,
                             ctxID |-> <<>>, respID |-> <<>>, generated |-> FALSE,
                             readAt |-> -1, outcome |-> "none",
                             resp |-> <<>>, logged |-> <<>>])
    /\ UNCHANGED <<clock, chainOther>>

\* tracing that calls next.ServeHTTP(w, r) with the request it was given:
\* the header is set, the context is the caller's
TracingDropsContext(r) ==
    /\ r \in 1..Len(reqs)
    /\ reqs[r].pc = "tracing"
    /\ reqs' = [reqs EXCEPT ![r] =
                   [@ EXCEPT !.pc = "logging",
                             !.ctxID = <<>>,
                             !.respID = <<RequestID(reqs[r].hdr, clock)>>,
                             !.generated = (HeaderGet(reqs[r].hdr) = ""),
                             !.readAt = IF HeaderGet(reqs[r].hdr) = "" THEN clock ELSE -1]]
    /\ UNCHANGED <<clock, chainOther>>

\* lines 146-153, tracing: the identifier is taken or generated, put in the
\* request's context and on the response, and the next handler is called
Tracing(r) ==
    /\ r \in 1..Len(reqs)
    /\ reqs[r].pc = "tracing"
    /\ reqs' = [reqs EXCEPT ![r] =
                   [@ EXCEPT !.pc = "logging",
                             !.ctxID = <<RequestID(reqs[r].hdr, clock)>>,
                             !.respID = <<RequestID(reqs[r].hdr, clock)>>,
                             !.generated = (HeaderGet(reqs[r].hdr) = ""),
                             !.readAt = IF HeaderGet(reqs[r].hdr) = "" THEN clock ELSE -1]]
    /\ UNCHANGED <<clock, chainOther>>

\* lines 131-139, logging: the deferred function is registered, next is called
LoggingEnter(r) ==
    /\ r \in 1..Len(reqs)
    /\ reqs[r].pc = "logging"
    /\ reqs' = [reqs EXCEPT ![r].pc = "router"]
    /\ UNCHANGED <<clock, chainOther>>

\* line 139, next.ServeHTTP: the router's target writes the response and
\* returns, or panics
RouterStep(r, panics) ==
    /\ r \in 1..Len(reqs)
    /\ reqs[r].pc = "router"
    /\ reqs' = [reqs EXCEPT ![r] =
                   [@ EXCEPT !.pc = "deferred",
                             !.outcome = IF panics THEN "panicked" ELSE "returned",
                             !.resp = IF panics THEN <<>>
                                      ELSE <<RouterServe(reqs[r].path, 0, ChainEnv)>>]]
    /\ UNCHANGED <<clock, chainOther>>

\* lines 133-136: the identifier in the context, "unknown" when there is none
LoggedID(ctxID) == IF ctxID = <<>> THEN "unknown" ELSE ctxID[1]

\* a call placed after next.ServeHTTP instead of a deferred one
RunsOnReturnOnly(outcome) == outcome = "returned"

\* whether the deferred function of lines 132-138 runs for this outcome of
\* next.ServeHTTP: a deferred call runs on return and on panic alike
DeferredRuns(outcome) == outcome \in {"returned", "panicked"}

\* lines 132-138: the deferred function logs one line as logging unwinds
LoggingDeferred(r) ==
    /\ r \in 1..Len(reqs)
    /\ reqs[r].pc = "deferred"
    /\ reqs' = [reqs EXCEPT ![r] =
                   [@ EXCEPT !.pc = "done",
                             !.logged = IF DeferredRuns(reqs[r].outcome)
                                        THEN Append(@, [id |-> LoggedID(reqs[r].ctxID),
                                                        sentinel |-> (reqs[r].ctxID = <<>>),
                                                        path |-> reqs[r].path,
                                                        after |-> reqs[r].outcome])
                                        ELSE @]]
    /\ UNCHANGED <<clock, chainOther>>

\* the lifecycle stays as constructed while the chain is exercised
InitChain == LifeInit /\ ChainIdle /\ PageIdle /\ HealthzIdle

ChainNext ==
    \/ Tick
    \/ \E hdr \in Headers, path \in ChainPaths : Arrive(hdr, path)
    \/ \E r \in 1..MaxReqs : Tracing(r)
    \/ \E r \in 1..MaxReqs : LoggingEnter(r)
    \/ \E r \in 1..MaxReqs, panics \in BOOLEAN : RouterStep(r, panics)
    \/ \E r \in 1..MaxReqs : LoggingDeferred(r)

SpecChain == InitChain /\ [][ChainNext]_vars

(***************************************************************************)
(* The page handler on its own: every template, readable or not, and every *)
(* reply to PING.                                                          *)
(***************************************************************************)
Fragments == {Placeholder, <<"{", "{">>, <<"L", "E", "A", "D", "}", "}">>,
              <<"<", "p", ">">>, LeadConnected, LeadStandalone}

RECURSIVE TemplatesOf(_)
TemplatesOf(n) ==
    IF n = 0 THEN {<<>>}
    ELSE TemplatesOf(n - 1) \cup {t \o f : t \in TemplatesOf(n - 1), f \in Fragments}

Templates == TemplatesOf(MaxFrags)

InitPage ==
    /\ LifeInit /\ ChainIdle /\ HealthzIdle
    /\ file \in Templates
    /\ readable \in BOOLEAN
    /\ pong \in PingReplies
    /\ page = <<>>

\* GET /: handler runs
ServePage ==
    /\ page = <<>>
    /\ page' = <<handler(file, readable, pong)>>
    /\ UNCHANGED <<file, readable, pong, lifeVars, chainVars, hz>>

SpecPage == InitPage /\ [][ServePage]_vars

(***************************************************************************)
(* The healthz handler, lines 105-113, called while the lifecycle runs.    *)
(* No route leads to it, so the call is made on the handler itself.        *)
(* No connection is open here, so Shutdown's first poll finds none and     *)
(* its select (GoShutdownTick, GoShutdownDeadline) is never entered.       *)
(***************************************************************************)
hzOther == <<lifeVars, chainVars, pageVars>>

\* a health check starts: what the flag is, and how often it was stored so far
HealthzBegin ==
    /\ Running
    /\ hz.pc = "idle"
    /\ hz' = [pc |-> "load", start |-> healthy, startLen |-> Len(writes)]
    /\ UNCHANGED hzOther

\* line 107: atomic.LoadInt32(&healthy)
HealthzLoad ==
    /\ Running
    /\ hz.pc = "load"
    /\ hz' = [pc |-> "write", start |-> hz.start, startLen |-> hz.startLen,
              loaded |-> healthy]
    /\ UNCHANGED hzOther

\* lines 107-111: w.WriteHeader with the status the loaded value selects
HealthzWrite ==
    /\ Running
    /\ hz.pc = "write"
    /\ hz' = [pc |-> "done", start |-> hz.start, startLen |-> hz.startLen,
              loaded |-> hz.loaded, endLen |-> Len(writes),
              resp |-> healthz(hz.loaded)]
    /\ UNCHANGED hzOther

HealthzNext ==
    \/ MainStep
    \/ GoAwaitQuit
    \/ GoStoreUnhealthy
    \/ GoContext
    \/ GoKeepAlives
    \/ GoShutdownBegin
    \/ GoShutdownClose
    \/ GoShutdownPoll
    \/ GoFatal
    \/ GoCloseDone
    \/ DeadlineExpire
    \/ \E sig \in Signals : Signal(sig)
    \/ HealthzBegin
    \/ HealthzLoad
    \/ HealthzWrite

SpecHealthz == Init /\ [][HealthzNext]_vars

(***************************************************************************)
(* Properties of the lifecycle.                                            *)
(***************************************************************************)
DoneConns == {i \in 1..Len(conns) : conns[i].state = "done"}

\* the shutdown goroutine has stored 0 (line 70)
GoStored == gpc \notin {"none", "g68", "g70"}

\* the shutdown goroutine has run: flag stored, keep-alives off, Shutdown called
ShutdownRan == GoStored /\ ~keepAlives /\ inShutdown

\* C1: each of SIGINT and SIGTERM, delivered once main has registered its
\* signal handlers, leads to the shutdown goroutine running and the server no
\* longer Serving, unless the process has ended.
C1_SignalsTriggerShutdown ==
    \A sig \in Signals : (sig \in delivered) ~> ((ShutdownRan /\ ~Serving) \/ ~Running)

\* C2: a finished health-check request was answered 204 if the server was between
\* start-complete and shutdown-begin and 503 otherwise, with no body.
C2_HealthAnswered ==
    \A i \in DoneConns :
        conns[i].path = HealthPath =>
            /\ conns[i].resp.status =
                  IF conns[i].live THEN StatusNoContent ELSE StatusServiceUnavailable
            /\ conns[i].resp.body = <<>>

\* C3: the liveness flag is true only while the listener is accepting.
C3_FlagTrueOnlyServing == healthy = 1 => Serving

\* C4: once the shutdown goroutine has stored false the flag is never true
\* again, and a lifetime that ends through shutdown wrote the flag exactly
\* twice, true and then false.
C4_FlagWrittenTwice ==
    /\ GoStored => healthy = 0
    /\ proc = "exited0" => writes = <<1, 0>>

\* C5: a SIGINT delivered once the handlers are registered leads to the process
\* exiting, and so does the expiry of the drain deadline, whether or not a
\* handler ever returns; main does not wait on done for ever.
C5_ShutdownTerminates ==
    /\ (SIGINT \in delivered) ~> ~Running
    /\ ctxExpired ~> ~Running

\* C5 witness: the process has exited after a SIGINT with the deadline passed
\* and a handler that never returned.
C5_Witness ==
    /\ SIGINT \in delivered
    /\ ctxExpired
    /\ ActiveConns # {}
    /\ ~Running

\* the errors server.Shutdown can return
ShutdownErrors == {"closeErr", "deadline"}

Traced == {r \in 1..Len(reqs) : reqs[r].pc # "tracing"}

\* C7 as amended: a request whose X-Request-Id header has a non-empty value V
\* gets V back unchanged on the response, and nothing is generated.
C7_EchoNonEmpty ==
    \A r \in Traced :
        (reqs[r].hdr # <<>> /\ reqs[r].hdr[1] # "") =>
            (reqs[r].respID = <<reqs[r].hdr[1]>> /\ ~reqs[r].generated)

\* C7 witness: a served request that sent a value and got it back.
C7_Witness ==
    \E r \in 1..Len(reqs) :
        reqs[r].pc = "done" /\ reqs[r].hdr = <<"a">> /\ reqs[r].respID = <<"a">>

\* C7 as stated: for all values V of the header, the empty one too.
C7_EchoAll ==
    \A r \in Traced :
        reqs[r].hdr # <<>> =>
            (reqs[r].respID = <<reqs[r].hdr[1]>> /\ ~reqs[r].generated)

\* C8: the responses to requests without the header carry generated
\* identifiers, no two of them the same.
C8_DistinctGenerated ==
    \A r1, r2 \in Traced :
        (r1 # r2 /\ reqs[r1].hdr = <<>> /\ reqs[r2].hdr = <<>>) =>
            (reqs[r1].generated /\ reqs[r2].generated /\ reqs[r1].respID # reqs[r2].respID)

\* C9: the logging middleware has logged nothing before the wrapped handler
\* has finished, and exactly one line once it has unwound, whether the handler
\* returned or panicked.
C9_OneLogLine ==
    \A r \in 1..Len(reqs) :
        /\ reqs[r].outcome = "none" => reqs[r].logged = <<>>
        /\ Len(reqs[r].logged) <= 1
        /\ reqs[r].pc = "done" =>
              (Len(reqs[r].logged) = 1 /\ reqs[r].logged[1].after = reqs[r].outcome)

\* C9 witness: the handler panicked and the one line is there.
C9_Witness ==
    \E r \in 1..Len(reqs) :
        reqs[r].pc = "done" /\ reqs[r].outcome = "panicked" /\ Len(reqs[r].logged) = 1

\* the requests whose log line has been written
Logged == {r \in 1..Len(reqs) : reqs[r].logged # <<>>}

\* C15: the identifier in a request's log line is the one in the X-Request-Id
\* header of its response, and the line never comes from the branch of
\* lines 133-136 that substitutes "unknown" for a missing context value.
C15_LogMatchesResponse ==
    \A r \in Logged :
        /\ reqs[r].respID # <<>>
        /\ reqs[r].logged[1].id = reqs[r].respID[1]
        /\ ~reqs[r].logged[1].sentinel

\* C15 witness: a request without the header was served, and the identifier
\* generated for it is on the response and in the log line.
C15_Witness ==
    \E r \in 1..Len(reqs) :
        /\ reqs[r].pc = "done"
        /\ reqs[r].generated
        /\ reqs[r].respID = <<nextRequestID(reqs[r].readAt)>>
        /\ reqs[r].logged[1].id = nextRequestID(reqs[r].readAt)

(***************************************************************************)
(* Properties of the page handler.                                         *)
(***************************************************************************)
Body == page[1].body
Chosen == LeadContent(testRedisConnection(pong))
NotChosen == LeadContent(~testRedisConnection(pong))

\* the template could be read, holds the placeholder and neither greeting
PlainTemplate ==
    /\ readable
    /\ Contains(file, Placeholder)
    /\ ~Contains(file, LeadConnected)
    /\ ~Contains(file, LeadStandalone)

\* C10 as amended: the body never contains {{LEAD}}; when the template was
\* read, holds the placeholder and neither greeting, the body contains the
\* greeting the probe result selects and not the other one.
C10_PageGreeting ==
    page # <<>> =>
        /\ ~Contains(Body, Placeholder)
        /\ PlainTemplate => (Contains(Body, Chosen) /\ ~Contains(Body, NotChosen))

\* C10 witness: a template with text around the placeholder, rendered connected.
C10_Witness ==
    /\ page # <<>>
    /\ PlainTemplate /\ file # Placeholder
    /\ pong = "PONG"
    /\ Contains(Body, LeadConnected)

\* C10 as stated: for every template content the body contains the greeting
\* the probe result selects, not the other one, and never {{LEAD}}.
C10_EveryTemplate ==
    page # <<>> =>
        /\ ~Contains(Body, Placeholder)
        /\ Contains(Body, Chosen) /\ ~Contains(Body, NotChosen)

(***************************************************************************)
(* Properties of requests served while the lifecycle runs.                 *)
(***************************************************************************)
\* C11: whatever the PING gives (the reply, an error, another reply) and
\* whether or not the template can be read, the probe yields a boolean, the
\* page handler answers 200, the process keeps running and the liveness flag
\* keeps its value.
C11_FailuresAbsorbed ==
    [][\A i \in 1..MaxConns, env \in ConnEnvs :
          FinishConn(i, env) =>
              /\ testRedisConnection(env.pong) \in BOOLEAN
              /\ ServeMux(conns[i].path) = "handler" => conns'[i].resp.status = StatusOK
              /\ proc' = "running"
              /\ healthy' = healthy]_vars

\* C11 witness: the page was served from a template that could not be read,
\* with status 200, and the process runs on.
C11_Witness ==
    \E i \in DoneConns :
        /\ conns[i].path = "/"
        /\ conns[i].resp = [status |-> StatusOK, body |-> <<>>]
        /\ Running

\* the server has stopped accepting or is draining because of a signal
Draining == ~keepAlives \/ inShutdown \/ listener = "closed"

\* C12: the shutdown goroutine stores false before it disables keep-alives and
\* before it calls server.Shutdown, so whenever the server has stopped
\* accepting or is draining the flag is false.
C12_FlagFalseWhenDraining ==
    /\ Draining => GoStored
    /\ Draining => healthy = 0

\* main has passed <-done (line 88)
MainPastDone == mpc \in {"m89", "returned"}

\* C14: main logs "Server stopped" and returns only after server.Shutdown has
\* returned nil in the shutdown goroutine and done is closed, with no request
\* still being served; and the process never ends over a request in flight
\* unless the drain deadline has passed.
C14_ExitAfterDrain ==
    /\ MainPastDone =>
          (shutdownErr = "nil" /\ doneClosed /\ gpc = "returned" /\ ActiveConns = {})
    /\ (~Running /\ ActiveConns # {}) => ctxExpired

\* C14 witness: a request that was finished after the shutdown goroutine had
\* been woken, and the process exited 0 afterwards.
C14_Witness ==
    /\ proc = "exited0"
    /\ \E i \in DoneConns : ~conns[i].live /\ conns[i].resp.status = StatusOK

(***************************************************************************)
(* Properties of the healthz handler.                                      *)
(***************************************************************************)
\* the values the flag held between the start and the end of the call
HeldDuringCall ==
    {hz.start} \cup {writes[k] : k \in (hz.startLen + 1)..hz.endLen}

\* C13: a finished call wrote 204 if its one load of the flag gave 1 and 503
\* otherwise, with no body; the loaded value is one the flag held during the
\* call, whatever the shutdown goroutine and main stored meanwhile.
C13_HealthzAtomicRead ==
    hz.pc = "done" =>
        /\ hz.resp.status =
              IF hz.loaded = 1 THEN StatusNoContent ELSE StatusServiceUnavailable
        /\ hz.resp.body = <<>>
        /\ hz.loaded \in HeldDuringCall

\* C13 witness: the shutdown goroutine stored 0 during the call, the call
\* loaded that 0 and answered 503.
C13_Witness ==
    /\ hz.pc = "done"
    /\ hz.start = 1
    /\ hz.endLen > hz.startLen
    /\ hz.loaded = 0
    /\ hz.resp.status = StatusServiceUnavailable

=============================================================================
